---- MODULE Spec2Model ----
(***************************************************************************)
(* Model of the person service of fastApiApp: the request-scoped session   *)
(* provider get_pg (app/utils/utils.py), the two handlers post_record and  *)
(* get_records (app/handler/person.py) and the person table they write and *)
(* read (app/db/postges.py).  Requests run concurrently: post_record is a  *)
(* plain def (thread pool), get_pg is a generator dependency, and every    *)
(* storage call (add, commit, refresh, query) may raise.                   *)
(***************************************************************************)
EXTENDS Integers, Sequences, FiniteSets, TLC

\* ---------------------------------------------------------------- bounds
MaxReq == 3        \* number of requests served in one behaviour
MaxId == 2         \* size of the pool uuid.uuid4() draws from
MaxTime == 1       \* number of distinct timestamps faker can produce
AgeSpread == 1     \* how many ages are sampled at each end of [min, max]

\* ------------------------------------------------------ program constants
AgeMin == 18
AgeMax == 99

Req == 1..MaxReq
Ids == 1..MaxId
Times == 1..MaxTime
Names == {"name"}
None == {}         \* Optional[...] = None; a set value is {t}

VARIABLES
    table,         \* rows of the "person" table, in insertion order
    sessions,      \* every Session object made by the factory so far
    kind,          \* kind[r]: "none", "create" (POST /person/), "list" (GET /person/)
    pc,            \* pc[r]: position of request r in its handler
    db,            \* db[r]: index in sessions of the session get_pg yielded, 0 before
    record,        \* record[r]: <<>> or <<PersonRecord>> local of post_record
    records,       \* records[r]: <<>> or <<rows read by get_records>>
    raised,        \* raised[r]: the handler left by an exception
    response,      \* response[r]: <<>> or <<the response model returned>>
    commits,       \* commits[r]: number of db.commit() calls request r made
    inserted,      \* inserted[r]: the commit of request r wrote its row
    returned_before \* returned_before[r]: creates that had returned when r started

vars == <<table, sessions, kind, pc, db, record, records, raised, response,
          commits, inserted, returned_before>>

\* ------------------------------------------------------------ pure helpers
IdsOf(rows) == {rows[i].id : i \in 1..Len(rows)}

\* faker.random_int(min, max): an integer of [min, max]; the model samples
\* AgeSpread values at each end of the interval
random_int_wide(min, max) ==
    {n \in (min - 1)..(max + 1) : n - (min - 1) < AgeSpread \/ (max + 1) - n < AgeSpread}

random_int(min, max) ==
    {n \in min..max : n - min < AgeSpread \/ max - n < AgeSpread}

\* PersonRecord(id=..., name=..., age=..., ..., deleted_at=None)
PersonRecord(id, name, age, created_at, updated_at) ==
    [id |-> id, name |-> name, age |-> age, address |-> "address",
     phone_number |-> "phone", created_at |-> created_at,
     updated_at |-> updated_at, deleted_at |-> None]

\* the records post_record can build
NewRecords ==
    {PersonRecord(i, n, a, c, u) :
        i \in Ids, n \in Names, a \in random_int(AgeMin, AgeMax),
        c \in Times, u \in Times}

\* PersonResponse(id=record.id, ..., deleted_at=None)
PersonResponseCopyDeleted(rec) ==
    [id |-> rec.id, name |-> rec.name, age |-> rec.age, address |-> rec.address,
     phone_number |-> rec.phone_number, created_at |-> rec.created_at,
     updated_at |-> rec.updated_at, deleted_at |-> {rec.updated_at}]

PersonResponse(rec) ==
    [id |-> rec.id, name |-> rec.name, age |-> rec.age, address |-> rec.address,
     phone_number |-> rec.phone_number, created_at |-> rec.created_at,
     updated_at |-> rec.updated_at, deleted_at |-> None]

\* session(): the factory makes a new Session object on every call
NewSession == [state |-> "open", closes |-> 0, new |-> <<>>]

session_shared(ss) ==
    IF ss = <<>> THEN [sessions |-> <<NewSession>>, db |-> 1]
    ELSE [sessions |-> ss, db |-> 1]

session(ss) == [sessions |-> Append(ss, NewSession), db |-> Len(ss) + 1]

\* get_pg after the yield: try/finally closes the session whether or not the
\* handler raised
get_pg_exit_no_finally(s, exc) ==
    IF exc THEN s
    ELSE [s EXCEPT !.state = "closed", !.closes = @ + 1, !.new = <<>>]

get_pg_exit(s, exc) ==
    [s EXCEPT !.state = "closed", !.closes = @ + 1, !.new = <<>>]

\* db.add(record): the object becomes pending in the session, nothing is sent
add(s, rec) == [s EXCEPT !.new = Append(@, rec)]

\* the pending rows of a session hit the primary key of the table
Conflict(rows, pending) ==
    \/ \E i \in 1..Len(pending) : pending[i].id \in IdsOf(rows)
    \/ \E i, j \in 1..Len(pending) : i # j /\ pending[i].id = pending[j].id

\* db.commit(): flush the pending rows (INSERT) and COMMIT as one transaction;
\* fail is a storage failure of the connection
commit_no_pk(rows, pending, fail) ==
    IF fail THEN [table |-> rows, raised |-> TRUE]
    ELSE [table |-> rows \o pending, raised |-> FALSE]

commit_write_then_raise(rows, pending, fail) ==
    IF Conflict(rows, pending) THEN [table |-> rows, raised |-> TRUE]
    ELSE [table |-> rows \o pending, raised |-> fail]

Upsert(rows, pending) ==
    LET kept == SelectSeq(rows, LAMBDA x : x.id \notin IdsOf(pending))
    IN  kept \o pending

commit_merge(rows, pending, fail) ==
    IF fail THEN [table |-> rows, raised |-> TRUE]
    ELSE [table |-> Upsert(rows, pending), raised |-> FALSE]

commit(rows, pending, fail) ==
    IF fail \/ Conflict(rows, pending) THEN [table |-> rows, raised |-> TRUE]
    ELSE [table |-> rows \o pending, raised |-> FALSE]

\* db.refresh(record): reload the attributes from the row with the record's
\* primary key; raises when the row cannot be loaded
RowsWithId(rows, id) == {i \in 1..Len(rows) : rows[i].id = id}

refresh(rows, rec, fail) ==
    IF fail \/ RowsWithId(rows, rec.id) = {}
    THEN [record |-> <<rec>>, raised |-> TRUE]
    ELSE [record |-> <<rows[CHOOSE i \in RowsWithId(rows, rec.id) : TRUE]>>,
          raised |-> FALSE]

\* db.query(PersonRecord).all(): every row of the table
query_first(rows) == SubSeq(rows, 1, IF Len(rows) > 0 THEN 1 ELSE 0)

query_all(rows) == rows

\* the for loop of get_records and AllPersonResponse(persons=output)
AllPersonResponseSkipFirst(rows) ==
    [persons |-> [i \in 1..(IF Len(rows) > 0 THEN Len(rows) - 1 ELSE 0) |->
                    PersonResponse(rows[i + 1])]]

AllPersonResponse(rows) ==
    [persons |-> [i \in 1..Len(rows) |-> PersonResponse(rows[i])]]

\* the outcome of the body of get_records on the rows it read
get_records_body_not_found(rows) ==
    IF rows = <<>> THEN [response |-> <<>>, raised |-> TRUE]
    ELSE [response |-> <<AllPersonResponse(rows)>>, raised |-> FALSE]

get_records_body(rows) ==
    [response |-> <<AllPersonResponse(rows)>>, raised |-> FALSE]

\* ------------------------------------------------------------------- Init
Init ==
    /\ table = <<>>
    /\ sessions = <<>>
    /\ kind = [r \in Req |-> "none"]
    /\ pc = [r \in Req |-> "idle"]
    /\ db = [r \in Req |-> 0]
    /\ record = [r \in Req |-> <<>>]
    /\ records = [r \in Req |-> <<>>]
    /\ raised = [r \in Req |-> FALSE]
    /\ response = [r \in Req |-> <<>>]
    /\ commits = [r \in Req |-> 0]
    /\ inserted = [r \in Req |-> FALSE]
    /\ returned_before = [r \in Req |-> {}]

\* the create requests that have returned a response
Returned == {q \in Req : kind[q] = "create" /\ response[q] # <<>>}

\* ---------------------------------------------------------------- actions
\* Depends(get_pg) up to the yield: db = session(); the handler then starts
GetPg(r, k) ==
    /\ pc[r] = "idle"
    /\ \A q \in 1..(r - 1) : pc[q] # "idle"
    /\ LET s == session(sessions) IN
         /\ sessions' = s.sessions
         /\ db' = [db EXCEPT ![r] = s.db]
    /\ kind' = [kind EXCEPT ![r] = k]
    /\ pc' = [pc EXCEPT ![r] = IF k = "create" THEN "add" ELSE "query"]
    /\ returned_before' = [returned_before EXCEPT ![r] = Returned]
    /\ UNCHANGED <<table, record, records, raised, response, commits, inserted>>

\* post_record: record = PersonRecord(id=uuid.uuid4(), ...); db.add(record)
PostRecordAdd(r) ==
    /\ pc[r] = "add"
    /\ \E rec \in NewRecords, fail \in BOOLEAN :
         /\ record' = [record EXCEPT ![r] = <<rec>>]
         /\ IF fail
            THEN /\ raised' = [raised EXCEPT ![r] = TRUE]
                 /\ pc' = [pc EXCEPT ![r] = "exit"]
                 /\ UNCHANGED sessions
            ELSE /\ sessions' = [sessions EXCEPT ![db[r]] = add(@, rec)]
                 /\ pc' = [pc EXCEPT ![r] = "commit"]
                 /\ UNCHANGED raised
    /\ UNCHANGED <<table, kind, db, records, response, commits, inserted,
                   returned_before>>

\* post_record: db.commit()
PostRecordCommit(r) ==
    /\ pc[r] = "commit"
    /\ \E fail \in BOOLEAN :
         LET res == commit(table, sessions[db[r]].new, fail) IN
           /\ table' = res.table
           /\ raised' = [raised EXCEPT ![r] = res.raised]
           /\ inserted' = [inserted EXCEPT ![r] = ~res.raised]
           /\ pc' = [pc EXCEPT ![r] = IF res.raised THEN "exit" ELSE "refresh"]
    /\ sessions' = [sessions EXCEPT ![db[r]].new = <<>>]
    /\ commits' = [commits EXCEPT ![r] = @ + 1]
    /\ UNCHANGED <<kind, db, record, records, response, returned_before>>

\* post_record: db.refresh(record); return PersonResponse(...)
PostRecordRefresh(r) ==
    /\ pc[r] = "refresh"
    /\ \E fail \in BOOLEAN :
         LET res == refresh(table, record[r][1], fail) IN
           /\ record' = [record EXCEPT ![r] = res.record]
           /\ raised' = [raised EXCEPT ![r] = res.raised]
           /\ response' = [response EXCEPT ![r] =
                             IF res.raised THEN <<>>
                             ELSE <<PersonResponse(res.record[1])>>]
    /\ pc' = [pc EXCEPT ![r] = "exit"]
    /\ UNCHANGED <<table, sessions, kind, db, records, commits, inserted,
                   returned_before>>

\* get_records: records = db.query(PersonRecord).all(); the loop over records;
\* return AllPersonResponse(persons=output)
GetRecords(r) ==
    /\ pc[r] = "query"
    /\ \E fail \in BOOLEAN :
         IF fail
         THEN /\ raised' = [raised EXCEPT ![r] = TRUE]
              /\ UNCHANGED <<records, response>>
         ELSE LET rows == query_all(table)
                  res == get_records_body(rows)
              IN  /\ records' = [records EXCEPT ![r] = <<rows>>]
                  /\ response' = [response EXCEPT ![r] = res.response]
                  /\ raised' = [raised EXCEPT ![r] = res.raised]
    /\ pc' = [pc EXCEPT ![r] = "exit"]
    /\ UNCHANGED <<table, sessions, kind, db, record, commits, inserted,
                   returned_before>>

\* get_pg after the yield: finally: db.close(); the request is finished and
\* the locals of the handler are gone
GetPgExit(r) ==
    /\ pc[r] = "exit"
    /\ sessions' = [sessions EXCEPT ![db[r]] = get_pg_exit(@, raised[r])]
    /\ pc' = [pc EXCEPT ![r] = "done"]
    /\ record' = [record EXCEPT ![r] = <<>>]
    /\ UNCHANGED <<table, kind, db, records, raised, response, commits,
                   inserted, returned_before>>

Next ==
    \/ \E r \in Req, k \in {"create", "list"} : GetPg(r, k)
    \/ \E r \in Req : PostRecordAdd(r)
    \/ \E r \in Req : PostRecordCommit(r)
    \/ \E r \in Req : PostRecordRefresh(r)
    \/ \E r \in Req : GetRecords(r)
    \/ \E r \in Req : GetPgExit(r)

Spec == Init /\ [][Next]_vars

\* ----------------------------------------------------------------- claims
InFlight(r) == pc[r] \notin {"idle", "done"}
Creates == {r \in Req : kind[r] = "create"}
Lists == {r \in Req : kind[r] = "list"}
ResponseIds(rs) == {response[q][1].id : q \in rs}

\* C1: every request that acquired a session through get_pg has closed it
\* exactly once when it is finished, whether the handler returned or raised;
\* no finished request has an open session and no session is closed twice.
C1_SessionClosedExactlyOnce ==
    /\ \A i \in 1..Len(sessions) : sessions[i].closes <= 1
    /\ \A r \in Req : pc[r] = "done" =>
          /\ sessions[db[r]].state = "closed"
          /\ sessions[db[r]].closes = 1

C1_Witness ==
    \E r1, r2 \in Req :
        /\ pc[r1] = "done" /\ raised[r1] /\ sessions[db[r1]].closes = 1
        /\ pc[r2] = "done" /\ ~raised[r2] /\ sessions[db[r2]].closes = 1

\* C2: read-your-writes: a list request that returns contains the id of every
\* create request that had returned successfully before the list started.
C2_ReadYourWrites ==
    \A r \in Lists : response[r] # <<>> =>
        ResponseIds(returned_before[r]) \subseteq IdsOf(response[r][1].persons)

C2_Witness ==
    \E r \in Lists :
        /\ response[r] # <<>>
        /\ Cardinality(returned_before[r]) >= 2

\* C3: a list request started after N create requests have succeeded returns
\* at least N records, and the number of stored rows never decreases.
C3_ListAtLeastN ==
    /\ [](\A r \in Lists : response[r] # <<>> =>
            Len(response[r][1].persons) >= Cardinality(returned_before[r]))
    /\ [][Len(table') >= Len(table)]_vars

C3_Witness ==
    \E r \in Lists :
        /\ pc[r] = "done" /\ response[r] # <<>>
        /\ Cardinality(returned_before[r]) >= 2
        /\ Len(response[r][1].persons) = 2

\* C4: no two stored rows share an id, and the ids returned by two successful
\* create requests differ; a create whose id is already stored fails.
C4_UniqueIds ==
    /\ \A i, j \in 1..Len(table) : table[i].id = table[j].id => i = j
    /\ \A r1, r2 \in Creates :
          (response[r1] # <<>> /\ response[r2] # <<>> /\ r1 # r2)
             => response[r1][1].id # response[r2][1].id

C4_Witness ==
    \E r \in Creates :
        /\ pc[r] = "exit" /\ raised[r] /\ commits[r] = 1 /\ ~inserted[r]
        /\ record[r][1].id \in IdsOf(table)
        /\ Len(table) >= 2

C6_AgeInRange ==
    /\ \A r \in Creates : response[r] # <<>> =>
          response[r][1].age \in AgeMin..AgeMax
    /\ \A r \in Lists : response[r] # <<>> =>
          \A i \in 1..Len(response[r][1].persons) :
              response[r][1].persons[i].age \in AgeMin..AgeMax

C6_Witness ==
    /\ \E r \in Creates : response[r] # <<>> /\ response[r][1].age = AgeMin
    /\ \E r \in Lists : response[r] # <<>> /\
          \E i \in 1..Len(response[r][1].persons) :
              response[r][1].persons[i].age = AgeMax

\* C7: a list request whose query read zero rows completes with an empty
\* persons list and no error.
C7_EmptyListOk ==
    \A r \in Lists : records[r] = << <<>> >> =>
        /\ ~raised[r]
        /\ response[r] = << [persons |-> <<>>] >>

C7_Witness ==
    \E r \in Lists :
        /\ pc[r] = "done" /\ records[r] = << <<>> >>
        /\ response[r] = << [persons |-> <<>>] >>

\* C8: a create request calls commit at most once, an error leaves it without
\* a response, and a step of add or commit that raises leaves the stored rows
\* as they were.
C8_NoRetryNoPartialWrite ==
    /\ [](\A r \in Creates : /\ commits[r] <= 1
                             /\ raised[r] => response[r] = <<>>)
    /\ [][\A r \in Req :
            (pc[r] \in {"add", "commit"} /\ raised'[r]) => table' = table]_vars

C8_Witness ==
    \E r \in Creates :
        /\ pc[r] = "done" /\ raised[r] /\ commits[r] = 1 /\ ~inserted[r]
        /\ response[r] = <<>>
        /\ table = <<>>

\* C9: a step of a list request leaves the stored rows unchanged, and any
\* other step either leaves them unchanged or is the commit of one create
\* request appending its one new record after the existing rows.
C9_RowsImmutable ==
    [][/\ \A r \in Lists : pc'[r] # pc[r] => table' = table
       /\ \/ table' = table
          \/ \E r \in Creates :
                /\ pc[r] = "commit" /\ pc'[r] = "refresh"
                /\ table' = Append(table, record[r][1])]_vars

C9_Witness ==
    /\ Len(table) >= 2
    /\ \E r \in Lists : pc[r] = "done" /\ response[r] # <<>>

\* C10: two requests in flight never hold the same session, the session of a
\* request in flight is open whatever other requests have closed, and the
\* creates that succeeded each added exactly one row, with distinct ids.
C10_IsolatedSessions ==
    /\ \A r1, r2 \in Req :
          (InFlight(r1) /\ InFlight(r2) /\ r1 # r2) => db[r1] # db[r2]
    /\ \A r \in Req : InFlight(r) => sessions[db[r]].state = "open"
    /\ Len(table) = Cardinality({r \in Req : inserted[r]})
    /\ \A r \in Creates : response[r] # <<>> =>
          Cardinality(RowsWithId(table, response[r][1].id)) = 1
    /\ Cardinality(ResponseIds(Returned)) = Cardinality(Returned)

C10_Witness ==
    \E r1, r2 \in Creates :
        /\ db[r2] < db[r1]
        /\ pc[r1] = "done" /\ response[r1] # <<>>
        /\ pc[r2] = "refresh" /\ inserted[r2]
        /\ sessions[db[r2]].state = "open"

====
